---- MODULE Spec2Model ----
(***************************************************************************)
(* Model of the FuelEU compliance core of src/backend.js:                  *)
(*   - CreatePoolUseCase (execute, greedyAllocate, validatePoolingRules),  *)
(*   - BankSurplusUseCase.execute and the bank-entry store behind it.      *)
(*                                                                         *)
(* Numbers.  Every `number` of the source is an IEEE-754 binary double.    *)
(* The model keeps the rounding and scales the format down: a value is an  *)
(* integer count of grid units (one unit = 0.5 tCO2eq, so that 1250.5 is   *)
(* 2501), and it is representable when it has at most Precision            *)
(* significant bits.  Every arithmetic operation of the source is the      *)
(* exact result rounded to the nearest representable value, ties to the    *)
(* even significand, as in IEEE-754 (where Precision is 53).               *)
(***************************************************************************)
EXTENDS Integers, Sequences, FiniteSets, TLC

VARIABLES
    members,      \* command.members of the current CreatePoolUseCase.execute call
    pc,           \* position of the call: start, outer, inner, validate, create, done
    allocations,  \* greedyAllocate's working list (shipId, cbBefore, cbAfter)
    i,            \* outer loop index (1-based)
    j,            \* inner loop index (1-based, counts down)
    result,       \* outcome of the call: "none" while running, "ok", or the error
    poolStore,    \* pools persisted through IPoolRepository.create
    returned,     \* the allocations handed back to the caller on success
    transfers,    \* history: the transfers executed so far, in order
    iters,        \* history: inner-loop iterations executed so far
    cbRecord,     \* ComplianceRecord.cbGco2eq per (ship, year) key, or NoRecord
    bankStore,    \* BankEntry rows: key, amount, applied
    bankLast,     \* history: the last banking call, its outcome and the state before it
    bankCalls,    \* history: banking calls counted against MaxCalls so far
    inflight,     \* per concurrent caller: the banking call it has in flight
    acked,        \* history: per key, the amounts of the completed bank and apply writes
    routeRepo,    \* IRouteRepository: per route code, the stored Route or NoRoute
    routeLast,    \* history: the last Route.create call and its outcome
    compSaves,    \* the records handed to IComplianceRepository.save, in order
    cbLast,       \* history: the last ComputeCBUseCase.execute call and its outcome
    httpLast      \* history: the last controller action, the failure it met, its response

poolVars == <<members, pc, allocations, i, j, result, poolStore, returned, transfers, iters>>
bankVars == <<cbRecord, bankStore, bankLast, bankCalls>>
concVars == <<inflight, acked>>
routeVars == <<routeRepo, routeLast, compSaves, cbLast, httpLast>>
vars == <<members, pc, allocations, i, j, result, poolStore, returned, transfers, iters,
          cbRecord, bankStore, bankLast, bankCalls,
          inflight, acked, routeRepo, routeLast, compSaves, cbLast, httpLast>>

-----------------------------------------------------------------------------
(* Bounds of the model *)

Precision == 12
MaxMembers == 3
MaxCalls == 3

-----------------------------------------------------------------------------
(* Double arithmetic, scaled down to Precision significant bits *)

RECURSIVE Pow2(_)
Pow2(n) == IF n = 0 THEN 1 ELSE 2 * Pow2(n - 1)

Big == Pow2(Precision)

Abs(x) == IF x < 0 THEN -x ELSE x

RECURSIVE Ulp(_)
Ulp(a) == IF a < Big THEN 1 ELSE 2 * Ulp(a \div 2)

FRound(x) ==
    LET a == Abs(x)
        u == Ulp(a)
        q == a \div u
        r == a % u
        m == IF 2 * r < u THEN q
             ELSE IF 2 * r > u THEN q + 1
             ELSE IF q % 2 = 0 THEN q ELSE q + 1
    IN  IF x < 0 THEN -(m * u) ELSE m * u

FAdd(x, y) == FRound(x + y)
FSub(x, y) == FRound(x - y)
FMin(x, y) == IF x < y THEN x ELSE y

-----------------------------------------------------------------------------
(* Inputs *)

Values == {0, 1, -1, 2501, -1600, Big, Big + 2, -(Big + 2)}

ShipIds == 1 .. MaxMembers

Member == [shipId : ShipIds, cbBefore : Values]

\* Ship identifiers are opaque to the code (only compared for equality), so the
\* lists are taken up to renaming: a member either repeats an identifier used
\* earlier in the list or takes the next unused one.
CanonicalIds(ms) ==
    \A k \in 1 .. Len(ms) :
        \/ ms[k].shipId = 1
        \/ \E l \in 1 .. k - 1 : ms[l].shipId + 1 >= ms[k].shipId

MemberLists ==
    UNION { {ms \in [1 .. n -> Member] : CanonicalIds(ms)} : n \in 0 .. MaxMembers }

-----------------------------------------------------------------------------
(* CreatePoolUseCase *)

\* members.reduce((sum, m) => sum + m.cbBefore, 0)
RECURSIVE TotalCBUpTo(_, _)
TotalCBUpTo(ms, n) ==
    IF n = 0 THEN 0 ELSE FAdd(TotalCBUpTo(ms, n - 1), ms[n].cbBefore)

TotalCB(ms) == TotalCBUpTo(ms, Len(ms))

\* the comparator with its operands exchanged: cbBefore ascending
CompareAscending(a, b) == FSub(a.cbBefore, b.cbBefore)

\* comparator (a, b) => b.cbBefore - a.cbBefore
Compare(a, b) == FSub(b.cbBefore, a.cbBefore)

\* an insertion that puts m before the entries it ties with
RECURSIVE InsertSortedUnstable(_, _)
InsertSortedUnstable(s, m) ==
    IF s = <<>> THEN <<m>>
    ELSE IF Compare(s[Len(s)], m) < 0 THEN Append(s, m)
    ELSE Append(InsertSortedUnstable(SubSeq(s, 1, Len(s) - 1), m), s[Len(s)])

\* stable insertion of m into a list already sorted by Compare
RECURSIVE InsertSorted(_, _)
InsertSorted(s, m) ==
    IF s = <<>> THEN <<m>>
    ELSE IF Compare(s[Len(s)], m) <= 0 THEN Append(s, m)
    ELSE Append(InsertSorted(SubSeq(s, 1, Len(s) - 1), m), s[Len(s)])

\* [...members].sort(comparator): a stable sort, cbBefore descending
RECURSIVE SortedUpTo(_, _)
SortedUpTo(ms, n) ==
    IF n = 0 THEN <<>> ELSE InsertSorted(SortedUpTo(ms, n - 1), ms[n])

Sorted(ms) == SortedUpTo(ms, Len(ms))

\* sorted.map(m => ({shipId, cbBefore, cbAfter: m.cbBefore}))
InitialAllocations(ms) ==
    [k \in 1 .. Len(ms) |->
        [shipId |-> Sorted(ms)[k].shipId,
         cbBefore |-> Sorted(ms)[k].cbBefore,
         cbAfter |-> Sorted(ms)[k].cbBefore]]

\* Mutant: the transfer is the whole deficit, not capped by the surplus.
TransferWholeDeficit(al, src, dst) == Abs(al[dst].cbAfter)

\* Mutant: the transfer is the whole surplus, not capped by the deficit.
TransferWholeSurplus(al, src, dst) == al[src].cbAfter

\* the amount without Math.abs
TransferWithoutAbs(al, src, dst) == FMin(al[src].cbAfter, al[dst].cbAfter)

\* Math.min(allocations[i].cbAfter, Math.abs(allocations[j].cbAfter))
Transfer(al, src, dst) == FMin(al[src].cbAfter, Abs(al[dst].cbAfter))

\* allocations[i].cbAfter -= transfer; allocations[j].cbAfter += transfer
ApplyTransfer(al, src, dst) ==
    LET t == Transfer(al, src, dst)
        debited == [al EXCEPT ![src].cbAfter = FSub(al[src].cbAfter, t)]
    IN  [debited EXCEPT ![dst].cbAfter = FAdd(debited[dst].cbAfter, t)]

\* new Map(original.map(m => [m.shipId, m.cbBefore])).get(id): the last entry wins
RECURSIVE OriginalMapUpTo(_, _, _)
OriginalMapUpTo(ms, n, id) ==
    IF n = 0 THEN 0
    ELSE IF ms[n].shipId = id THEN ms[n].cbBefore
    ELSE OriginalMapUpTo(ms, n - 1, id)

OriginalMap(ms, id) == OriginalMapUpTo(ms, Len(ms), id)

ExitsWorse(ms, alloc) ==
    OriginalMap(ms, alloc.shipId) < 0 /\ alloc.cbAfter < OriginalMap(ms, alloc.shipId)

ExitsNegative(ms, alloc) ==
    OriginalMap(ms, alloc.shipId) > 0 /\ alloc.cbAfter < 0

\* validatePoolingRules: the first allocation, in order, that breaks a rule decides
RECURSIVE ValidateFrom(_, _, _)
ValidateFrom(ms, al, k) ==
    IF k > Len(al) THEN "ok"
    ELSE IF ExitsWorse(ms, al[k]) THEN "MemberExitsWorse"
    ELSE IF ExitsNegative(ms, al[k]) THEN "MemberExitsNegative"
    ELSE ValidateFrom(ms, al, k + 1)

ValidatePoolingRules(ms, al) == ValidateFrom(ms, al, 1)

\* Mutant: the total-CB check runs before the member-count check.
StartTotalFirst ==
    /\ pc = "start"
    /\ IF TotalCB(members) < 0
       THEN /\ result' = "PoolNegativeTotal"
            /\ pc' = "done"
            /\ UNCHANGED allocations
       ELSE IF Len(members) < 2
       THEN /\ result' = "PoolMinimumMembers"
            /\ pc' = "done"
            /\ UNCHANGED allocations
       ELSE /\ allocations' = InitialAllocations(members)
            /\ pc' = "outer"
            /\ UNCHANGED result
    /\ i' = 1
    /\ UNCHANGED <<members, j, poolStore, returned, transfers, iters>>
    /\ UNCHANGED <<cbRecord, bankStore, bankLast, bankCalls>>
    /\ UNCHANGED <<concVars, routeVars>>

\* Mutant: a pool whose total is exactly 0 is rejected (<= instead of <).
StartRejectsZeroTotal ==
    /\ pc = "start"
    /\ IF Len(members) < 2
       THEN /\ result' = "PoolMinimumMembers"
            /\ pc' = "done"
            /\ UNCHANGED allocations
       ELSE IF TotalCB(members) <= 0
       THEN /\ result' = "PoolNegativeTotal"
            /\ pc' = "done"
            /\ UNCHANGED allocations
       ELSE /\ allocations' = InitialAllocations(members)
            /\ pc' = "outer"
            /\ UNCHANGED result
    /\ i' = 1
    /\ UNCHANGED <<members, j, poolStore, returned, transfers, iters>>
    /\ UNCHANGED <<cbRecord, bankStore, bankLast, bankCalls>>
    /\ UNCHANGED <<concVars, routeVars>>

\* execute, lines 354-367: the two precondition checks, then greedyAllocate begins
Start ==
    /\ pc = "start"
    /\ IF Len(members) < 2
       THEN /\ result' = "PoolMinimumMembers"
            /\ pc' = "done"
            /\ UNCHANGED allocations
       ELSE IF TotalCB(members) < 0
       THEN /\ result' = "PoolNegativeTotal"
            /\ pc' = "done"
            /\ UNCHANGED allocations
       ELSE /\ allocations' = InitialAllocations(members)
            /\ pc' = "outer"
            /\ UNCHANGED result
    /\ i' = 1
    /\ UNCHANGED <<members, j, poolStore, returned, transfers, iters>>
    /\ UNCHANGED bankVars
    /\ UNCHANGED <<concVars, routeVars>>

\* for (let i = 0; i < allocations.length; i++) { if (allocations[i].cbAfter > 0) ...
OuterStep ==
    /\ pc = "outer"
    /\ IF i > Len(allocations)
       THEN /\ pc' = "validate"
            /\ UNCHANGED <<i, j>>
       ELSE IF allocations[i].cbAfter > 0
       THEN /\ pc' = "inner"
            /\ j' = Len(allocations)
            /\ UNCHANGED i
       ELSE /\ i' = i + 1
            /\ UNCHANGED <<pc, j>>
    /\ UNCHANGED <<members, allocations, result, poolStore, returned, transfers, iters>>
    /\ UNCHANGED bankVars
    /\ UNCHANGED <<concVars, routeVars>>

\* the inner loop body taking allocations[j].cbAfter <= 0 for a deficit
InnerTransferNonPositive ==
    /\ pc = "inner"
    /\ j >= 1
    /\ allocations[j].cbAfter <= 0
    /\ allocations' = ApplyTransfer(allocations, i, j)
    /\ transfers' = Append(transfers,
                           [src |-> i, dst |-> j, amount |-> Transfer(allocations, i, j)])
    /\ iters' = iters + 1
    /\ IF allocations'[i].cbAfter = 0
       THEN /\ i' = i + 1
            /\ pc' = "outer"
            /\ UNCHANGED j
       ELSE /\ j' = j - 1
            /\ UNCHANGED <<i, pc>>
    /\ UNCHANGED <<members, result, poolStore, returned>>
    /\ UNCHANGED bankVars
    /\ UNCHANGED <<concVars, routeVars>>

\* inner loop body with allocations[j].cbAfter < 0: the transfer and the break test
InnerTransfer ==
    /\ pc = "inner"
    /\ j >= 1
    /\ allocations[j].cbAfter < 0
    /\ allocations' = ApplyTransfer(allocations, i, j)
    /\ transfers' = Append(transfers,
                           [src |-> i, dst |-> j, amount |-> Transfer(allocations, i, j)])
    /\ iters' = iters + 1
    /\ IF allocations'[i].cbAfter = 0
       THEN /\ i' = i + 1
            /\ pc' = "outer"
            /\ UNCHANGED j
       ELSE /\ j' = j - 1
            /\ UNCHANGED <<i, pc>>
    /\ UNCHANGED <<members, result, poolStore, returned>>
    /\ UNCHANGED bankVars
    /\ UNCHANGED <<concVars, routeVars>>

\* inner loop body with allocations[j].cbAfter >= 0: nothing happens, j--
InnerSkip ==
    /\ pc = "inner"
    /\ j >= 1
    /\ ~(allocations[j].cbAfter < 0)
    /\ j' = j - 1
    /\ iters' = iters + 1
    /\ UNCHANGED <<members, pc, allocations, i, result, poolStore, returned, transfers>>
    /\ UNCHANGED bankVars
    /\ UNCHANGED <<concVars, routeVars>>

\* inner loop condition j >= 0 fails: back to the outer loop, i++
InnerExit ==
    /\ pc = "inner"
    /\ j = 0
    /\ i' = i + 1
    /\ pc' = "outer"
    /\ UNCHANGED <<members, allocations, j, result, poolStore, returned, transfers, iters>>
    /\ UNCHANGED bankVars
    /\ UNCHANGED <<concVars, routeVars>>

\* execute without the call of validatePoolingRules
ValidateSkipped ==
    /\ pc = "validate"
    /\ pc' = "create"
    /\ UNCHANGED <<members, allocations, i, j, result, poolStore, returned, transfers, iters>>
    /\ UNCHANGED bankVars
    /\ UNCHANGED <<concVars, routeVars>>

\* execute, line 370: this.validatePoolingRules(command.members, allocations)
Validate ==
    /\ pc = "validate"
    /\ IF ValidatePoolingRules(members, allocations) = "ok"
       THEN /\ pc' = "create"
            /\ UNCHANGED result
       ELSE /\ pc' = "done"
            /\ result' = ValidatePoolingRules(members, allocations)
    /\ UNCHANGED <<members, allocations, i, j, poolStore, returned, transfers, iters>>
    /\ UNCHANGED bankVars
    /\ UNCHANGED <<concVars, routeVars>>

\* execute, lines 373-378: poolRepo.create resolves; the allocations are returned
CreateOk ==
    /\ pc = "create"
    /\ poolStore' = Append(poolStore, allocations)
    /\ returned' = allocations
    /\ result' = "ok"
    /\ pc' = "done"
    /\ UNCHANGED <<members, allocations, i, j, transfers, iters>>
    /\ UNCHANGED bankVars
    /\ UNCHANGED <<concVars, routeVars>>

\* execute, line 373: poolRepo.create rejects; the rejection propagates
CreateFails ==
    /\ pc = "create"
    /\ result' = "PersistenceError"
    /\ pc' = "done"
    /\ UNCHANGED <<members, allocations, i, j, poolStore, returned, transfers, iters>>
    /\ UNCHANGED bankVars
    /\ UNCHANGED <<concVars, routeVars>>

-----------------------------------------------------------------------------
(* Banking: BankSurplusUseCase and the bank-entry store *)

\* the (ship, year) pairs
Keys == {"S001-2024", "S002-2024"}

\* complianceRepo.findByShipAndYear(...) returns null, or a record with its cbGco2eq
NoRecord == [found |-> FALSE, cbGco2eq |-> 0]
Record(cb) == [found |-> TRUE, cbGco2eq |-> cb]

\* record CBs -100, 0 and 750.5 and amounts -100, 500, 750.5 and 800, in grid units
CbValues == {-200, 0, 1501}
Amounts == {-200, 1000, 1501, 1600}

NoCall == [op |-> "none", key |-> "", amount |-> 0, outcome |-> "none",
           before |-> <<>>, recordBefore |-> NoRecord]

\* Mutant: the amount is compared with the record before the record's sign is tested.
BankOutcomeAmountFirst(rec, amount) ==
    IF ~rec.found THEN "RecordNotFound"
    ELSE IF amount > rec.cbGco2eq THEN "AmountExceedsAvailable"
    ELSE IF rec.cbGco2eq <= 0 THEN "NonPositiveCB"
    ELSE "ok"

\* BankSurplusUseCase.execute, the three checks in order
BankOutcome(rec, amount) ==
    IF ~rec.found THEN "RecordNotFound"
    ELSE IF rec.cbGco2eq <= 0 THEN "NonPositiveCB"
    ELSE IF amount > rec.cbGco2eq THEN "AmountExceedsAvailable"
    ELSE "ok"

\* Mutant: the banked amount is capped at 500.
BankEntryCapped(key, amount) == [key |-> key, amount |-> FMin(amount, 1000)]

\* the object handed to bankRepo.create: {shipId, year, amountGco2eq}
BankEntry(key, amount) == [key |-> key, amount |-> amount]

\* IBankRepository.create: a new row with nothing applied
RepoCreate(store, entry) ==
    Append(store, [key |-> entry.key, amount |-> entry.amount, applied |-> 0])

\* IBankRepository.getTotalBanked: the unapplied banked total of a key
RECURSIVE TotalBankedUpTo(_, _, _)
TotalBankedUpTo(store, n, key) ==
    IF n = 0 THEN 0
    ELSE TotalBankedUpTo(store, n - 1, key)
         + (IF store[n].key = key THEN store[n].amount - store[n].applied ELSE 0)

GetTotalBanked(store, key) == TotalBankedUpTo(store, Len(store), key)

\* the applied total of a key
RECURSIVE TotalAppliedUpTo(_, _, _)
TotalAppliedUpTo(store, n, key) ==
    IF n = 0 THEN 0
    ELSE TotalAppliedUpTo(store, n - 1, key)
         + (IF store[n].key = key THEN store[n].applied ELSE 0)

TotalApplied(store, key) == TotalAppliedUpTo(store, Len(store), key)

\* applyBanked, the two checks in order
ApplyOutcome(store, key, amount) ==
    IF GetTotalBanked(store, key) <= 0 THEN "NoBankedSurplus"
    ELSE IF amount > GetTotalBanked(store, key) THEN "AmountExceedsBanked"
    ELSE "ok"

\* IBankRepository.applyBanked: the applied amount of a row of the key grows by amount
RepoApply(store, idx, amount) ==
    [store EXCEPT ![idx].applied = store[idx].applied + amount]

\* BankSurplusUseCase.execute(command), as one serialized call
BankSurplus(key, amount) ==
    /\ pc = "idle"
    /\ bankCalls < MaxCalls
    /\ bankLast' = [op |-> "bank", key |-> key, amount |-> amount,
                    outcome |-> BankOutcome(cbRecord[key], amount),
                    before |-> bankStore, recordBefore |-> cbRecord[key]]
    /\ IF BankOutcome(cbRecord[key], amount) = "ok"
       THEN /\ bankStore' = RepoCreate(bankStore, BankEntry(key, amount))
            /\ bankCalls' = bankCalls + 1
       ELSE UNCHANGED <<bankStore, bankCalls>>
    /\ UNCHANGED cbRecord
    /\ UNCHANGED poolVars
    /\ UNCHANGED <<concVars, routeVars>>

\* applyBanked(ship, year, amount), as one serialized call that fails
ApplyBankedFails(key, amount) ==
    /\ pc = "idle"
    /\ bankCalls < MaxCalls
    /\ ApplyOutcome(bankStore, key, amount) # "ok"
    /\ bankLast' = [op |-> "apply", key |-> key, amount |-> amount,
                    outcome |-> ApplyOutcome(bankStore, key, amount),
                    before |-> bankStore, recordBefore |-> cbRecord[key]]
    /\ UNCHANGED <<cbRecord, bankStore, bankCalls>>
    /\ UNCHANGED poolVars
    /\ UNCHANGED <<concVars, routeVars>>

\* applyBanked(ship, year, amount), as one serialized call that succeeds
ApplyBankedOk(key, amount) ==
    /\ pc = "idle"
    /\ bankCalls < MaxCalls
    /\ ApplyOutcome(bankStore, key, amount) = "ok"
    /\ \E idx \in 1 .. Len(bankStore) :
           /\ bankStore[idx].key = key
           /\ bankStore' = RepoApply(bankStore, idx, amount)
    /\ bankLast' = [op |-> "apply", key |-> key, amount |-> amount,
                    outcome |-> "ok",
                    before |-> bankStore, recordBefore |-> cbRecord[key]]
    /\ bankCalls' = bankCalls + 1
    /\ UNCHANGED cbRecord
    /\ UNCHANGED poolVars
    /\ UNCHANGED <<concVars, routeVars>>

-----------------------------------------------------------------------------
(* Values of the variables a specification leaves at rest *)

\* the concurrent callers of the banking use cases
NumProcs == 2
Procs == 1 .. NumProcs

IdleCall == [phase |-> "idle", op |-> "none", key |-> "", amount |-> 0, outcome |-> "none"]

NoneAcked == [k \in Keys |-> [banked |-> 0, applied |-> 0]]

ConcIdle ==
    /\ inflight = [p \in Procs |-> IdleCall]
    /\ acked = NoneAcked

\* the route codes of the repository
RouteCodes == {"R001", "R002"}

\* routeRepo.findByRouteId(...) returns null, or the Route
NoRoute == [found |-> FALSE, ghgIntensity |-> 0, fuelConsumption |-> 0, year |-> 0,
            isBaseline |-> FALSE]

NoRouteCall == [op |-> "none", routeId |-> "", ghgIntensity |-> 0, fuelConsumption |-> 0,
                year |-> 0, outcome |-> "none"]

NoCbCall == [op |-> "none", routeId |-> "", shipId |-> "", year |-> 0, outcome |-> "none",
             target |-> 0, energy |-> 0, value |-> 0, savesBefore |-> <<>>]

NoHttpCall == [action |-> "none", failure |-> "none", status |-> 0]

RouteIdle ==
    /\ routeRepo = [c \in RouteCodes |-> NoRoute]
    /\ routeLast = NoRouteCall
    /\ compSaves = <<>>
    /\ cbLast = NoCbCall
    /\ httpLast = NoHttpCall

PoolIdle ==
    /\ members = <<>>
    /\ pc = "idle"
    /\ allocations = <<>>
    /\ i = 1
    /\ j = 0
    /\ result = "none"
    /\ poolStore = <<>>
    /\ returned = <<>>
    /\ transfers = <<>>
    /\ iters = 0

BankIdle ==
    /\ cbRecord = [k \in Keys |-> NoRecord]
    /\ bankStore = <<>>
    /\ bankLast = NoCall
    /\ bankCalls = 0

PoolInit ==
    /\ members \in MemberLists
    /\ pc = "start"
    /\ allocations = <<>>
    /\ i = 1
    /\ j = 0
    /\ result = "none"
    /\ poolStore = <<>>
    /\ returned = <<>>
    /\ transfers = <<>>
    /\ iters = 0
    /\ cbRecord = [k \in Keys |-> NoRecord]
    /\ bankStore = <<>>
    /\ bankLast = NoCall
    /\ bankCalls = 0
    /\ ConcIdle
    /\ RouteIdle

PoolNext ==
    \/ Start
    \/ OuterStep
    \/ InnerTransfer
    \/ InnerSkip
    \/ InnerExit
    \/ Validate
    \/ CreateOk
    \/ CreateFails

PoolSpec == PoolInit /\ [][PoolNext]_vars

BankInit ==
    /\ members = <<>>
    /\ pc = "idle"
    /\ allocations = <<>>
    /\ i = 1
    /\ j = 0
    /\ result = "none"
    /\ poolStore = <<>>
    /\ returned = <<>>
    /\ transfers = <<>>
    /\ iters = 0
    /\ cbRecord \in [Keys -> {NoRecord} \cup {Record(cb) : cb \in CbValues}]
    /\ bankStore = <<>>
    /\ bankLast = NoCall
    /\ bankCalls = 0
    /\ ConcIdle
    /\ RouteIdle

BankNext ==
    \/ \E key \in Keys, amount \in Amounts : BankSurplus(key, amount)
    \/ \E key \in Keys, amount \in Amounts : ApplyBankedFails(key, amount)
    \/ \E key \in Keys, amount \in Amounts : ApplyBankedOk(key, amount)

BankSpec == BankInit /\ [][BankNext]_vars

-----------------------------------------------------------------------------
(* Banking with concurrent callers.  A use case awaits its read, validates,   *)
(* then awaits its write; other callers run between the two awaits.  Each     *)
(* repository call is one atomic step, so a key never has two writes in       *)
(* flight at once.                                                            *)

\* amounts -100, 500 and 750.5 in grid units
ConcAmounts == {-200, 1000, 1501}

Call(phase, op, key, amount, outcome) ==
    [phase |-> phase, op |-> op, key |-> key, amount |-> amount, outcome |-> outcome]

\* BankSurplusUseCase.execute up to its second await: the record is read and checked
ConcBankBegin(p, key, amount) ==
    /\ pc = "idle"
    /\ inflight[p].phase = "idle"
    /\ bankCalls < MaxCalls
    /\ bankCalls' = bankCalls + 1
    /\ inflight' = [inflight EXCEPT ![p] =
           Call(IF BankOutcome(cbRecord[key], amount) = "ok" THEN "writing" ELSE "done",
                "bank", key, amount, BankOutcome(cbRecord[key], amount))]
    /\ UNCHANGED <<cbRecord, bankStore, bankLast, acked>>
    /\ UNCHANGED poolVars
    /\ UNCHANGED routeVars

\* BankSurplusUseCase.execute, the write: bankRepo.create completes
ConcBankWrite(p) ==
    /\ pc = "idle"
    /\ inflight[p].phase = "writing"
    /\ inflight[p].op = "bank"
    /\ bankStore' = RepoCreate(bankStore, BankEntry(inflight[p].key, inflight[p].amount))
    /\ acked' = [acked EXCEPT ![inflight[p].key].banked = @ + inflight[p].amount]
    /\ inflight' = [inflight EXCEPT ![p].phase = "done"]
    /\ UNCHANGED <<cbRecord, bankLast, bankCalls>>
    /\ UNCHANGED poolVars
    /\ UNCHANGED routeVars

\* applyBanked up to its second await: the unapplied total is read and checked
ConcApplyBegin(p, key, amount) ==
    /\ pc = "idle"
    /\ inflight[p].phase = "idle"
    /\ bankCalls < MaxCalls
    /\ bankCalls' = bankCalls + 1
    /\ inflight' = [inflight EXCEPT ![p] =
           Call(IF ApplyOutcome(bankStore, key, amount) = "ok" THEN "writing" ELSE "done",
                "apply", key, amount, ApplyOutcome(bankStore, key, amount))]
    /\ UNCHANGED <<cbRecord, bankStore, bankLast, acked>>
    /\ UNCHANGED poolVars
    /\ UNCHANGED routeVars

\* applyBanked, the write: bankRepo.applyBanked completes
ConcApplyWrite(p) ==
    /\ pc = "idle"
    /\ inflight[p].phase = "writing"
    /\ inflight[p].op = "apply"
    /\ \E idx \in 1 .. Len(bankStore) :
           /\ bankStore[idx].key = inflight[p].key
           /\ bankStore' = RepoApply(bankStore, idx, inflight[p].amount)
    /\ acked' = [acked EXCEPT ![inflight[p].key].applied = @ + inflight[p].amount]
    /\ inflight' = [inflight EXCEPT ![p].phase = "done"]
    /\ UNCHANGED <<cbRecord, bankLast, bankCalls>>
    /\ UNCHANGED poolVars
    /\ UNCHANGED routeVars

\* the call has returned to its caller, who may call again
ConcReturn(p) ==
    /\ pc = "idle"
    /\ inflight[p].phase = "done"
    /\ inflight' = [inflight EXCEPT ![p] = IdleCall]
    /\ UNCHANGED <<cbRecord, bankStore, bankLast, bankCalls, acked>>
    /\ UNCHANGED poolVars
    /\ UNCHANGED routeVars

BankConcInit ==
    /\ PoolIdle
    /\ cbRecord \in [Keys -> {Record(1501), Record(0)}]
    /\ bankStore = <<>>
    /\ bankLast = NoCall
    /\ bankCalls = 0
    /\ ConcIdle
    /\ RouteIdle

BankConcNext ==
    \/ \E p \in Procs, key \in Keys, amount \in ConcAmounts : ConcBankBegin(p, key, amount)
    \/ \E p \in Procs : ConcBankWrite(p)
    \/ \E p \in Procs, key \in Keys, amount \in ConcAmounts : ConcApplyBegin(p, key, amount)
    \/ \E p \in Procs : ConcApplyWrite(p)
    \/ \E p \in Procs : ConcReturn(p)

BankConcSpec == BankConcInit /\ [][BankConcNext]_vars

-----------------------------------------------------------------------------
(* Routes and the HTTP controller.  GHG intensities are integers in units of  *)
(* 0.0001 gCO2e/MJ, fuel consumption is in tonnes.                            *)

\* 0, 88 and 91 gCO2e/MJ
Intensities == {0, 880000, 910000}

Consumptions == {0, 4800}

RouteYears == {2023, 2024, 2025}

MinYear == 2024

\* the order of the checks with the year first
RouteValidateYearFirst(ghgIntensity, fuelConsumption, year) ==
    IF year < MinYear THEN "Year must be 2024 or later"
    ELSE IF ghgIntensity <= 0 THEN "GHG intensity must be positive"
    ELSE IF fuelConsumption <= 0 THEN "Fuel consumption must be positive"
    ELSE "ok"

\* Route.validate: the message of the ValidationError thrown, or "ok"
RouteValidate(ghgIntensity, fuelConsumption, year) ==
    IF ghgIntensity <= 0 THEN "GHG intensity must be positive"
    ELSE IF fuelConsumption <= 0 THEN "Fuel consumption must be positive"
    ELSE IF year < MinYear THEN "Year must be 2024 or later"
    ELSE "ok"

\* the Route object the constructor returns
RouteOf(ghgIntensity, fuelConsumption, year, isBaseline) ==
    [found |-> TRUE, ghgIntensity |-> ghgIntensity, fuelConsumption |-> fuelConsumption,
     year |-> year, isBaseline |-> isBaseline]

\* IRouteRepository.save
RepoSave(repo, code, route) == [repo EXCEPT ![code] = route]

\* IRouteRepository.setBaseline: the named route becomes the only baseline
RepoSetBaseline(repo, code) ==
    [c \in RouteCodes |->
        IF repo[c].found THEN [repo[c] EXCEPT !.isBaseline = (c = code)] ELSE repo[c]]

\* IRouteRepository.findBaseline
HasBaseline(repo) == \E c \in RouteCodes : repo[c].found /\ repo[c].isBaseline

\* Route.create(props); a Route that was constructed is kept by the repository
CreateRoute(code, ghgIntensity, fuelConsumption, year) ==
    /\ pc = "idle"
    /\ routeLast' = [op |-> "create", routeId |-> code, ghgIntensity |-> ghgIntensity,
                     fuelConsumption |-> fuelConsumption, year |-> year,
                     outcome |-> RouteValidate(ghgIntensity, fuelConsumption, year)]
    /\ routeRepo' = IF RouteValidate(ghgIntensity, fuelConsumption, year) = "ok"
                    THEN RepoSave(routeRepo, code,
                                  RouteOf(ghgIntensity, fuelConsumption, year, FALSE))
                    ELSE routeRepo
    /\ UNCHANGED <<compSaves, cbLast, httpLast>>
    /\ UNCHANGED poolVars
    /\ UNCHANGED bankVars
    /\ UNCHANGED concVars

\* what the injected set-baseline use case can do with a route id
SetBaselineFailures == {"none", "notFound", "io"}

\* RouteController.getAll: any error of the use case is answered with 500
HttpGetAll(io) ==
    /\ pc = "idle"
    /\ httpLast' = [action |-> "getAll", failure |-> IF io THEN "io" ELSE "none",
                    status |-> IF io THEN 500 ELSE 200]
    /\ UNCHANGED <<routeRepo, routeLast, compSaves, cbLast>>
    /\ UNCHANGED poolVars
    /\ UNCHANGED bankVars
    /\ UNCHANGED concVars

\* RouteController.setBaseline: any error of the use case is answered with 400
HttpSetBaseline(code, failure) ==
    /\ pc = "idle"
    /\ failure = "none" => routeRepo[code].found
    /\ failure = "notFound" => ~routeRepo[code].found
    /\ httpLast' = [action |-> "setBaseline", failure |-> failure,
                    status |-> IF failure = "none" THEN 200 ELSE 400]
    /\ routeRepo' = IF failure = "none" THEN RepoSetBaseline(routeRepo, code) ELSE routeRepo
    /\ UNCHANGED <<routeLast, compSaves, cbLast>>
    /\ UNCHANGED poolVars
    /\ UNCHANGED bankVars
    /\ UNCHANGED concVars

\* CompareRoutesUseCase.execute: the message of the Error thrown, "io" or "none"
CompareFailure(repo, io) ==
    IF io THEN "io"
    ELSE IF ~HasBaseline(repo) THEN "No baseline route set"
    ELSE "none"

\* RouteController.getComparison: any error of the use case is answered with 500
HttpGetComparison(io) ==
    /\ pc = "idle"
    /\ httpLast' = [action |-> "getComparison", failure |-> CompareFailure(routeRepo, io),
                    status |-> IF CompareFailure(routeRepo, io) = "none" THEN 200 ELSE 500]
    /\ UNCHANGED <<routeRepo, routeLast, compSaves, cbLast>>
    /\ UNCHANGED poolVars
    /\ UNCHANGED bankVars
    /\ UNCHANGED concVars

RouteInit ==
    /\ PoolIdle
    /\ BankIdle
    /\ ConcIdle
    /\ RouteIdle

RouteNext ==
    \/ \E code \in RouteCodes, g \in Intensities, f \in Consumptions, y \in RouteYears :
           CreateRoute(code, g, f, y)
    \/ \E io \in BOOLEAN : HttpGetAll(io)
    \/ \E code \in RouteCodes, failure \in SetBaselineFailures : HttpSetBaseline(code, failure)
    \/ \E io \in BOOLEAN : HttpGetComparison(io)

RouteSpec == RouteInit /\ [][RouteNext]_vars

-----------------------------------------------------------------------------
(* Compliance balance.  Intensities are exact decimals in units of 0.0001     *)
(* gCO2e/MJ, reduction rates in units of 0.1 %, the balance in units of       *)
(* 0.00001 tCO2eq.  The program computes the same quantities in doubles,      *)
(* which differ from the exact decimals by a relative error below 2^-50       *)
(* (62.90039999999999 for 62.9004, 263.08223999999933 for 263.08224).         *)

\* 91.16 gCO2e/MJ
Baseline == 911600

\* 2 %
DefaultReduction == 20

\* MJ per tonne of fuel
EnergyPerTonne == 41000

TableYears == {2025, 2030, 2035, 2040, 2045, 2050}

\* reductionRates: 2, 6, 14.5, 31, 62 and 80 %
ReductionRates ==
    [y \in TableYears |->
        CASE y = 2025 -> 20
          [] y = 2030 -> 60
          [] y = 2035 -> 145
          [] y = 2040 -> 310
          [] y = 2045 -> 620
          [] y = 2050 -> 800]

\* the default replaced by the rate of the latest listed year not after the year
ReductionPercentLatestListed(year) ==
    IF \E y \in TableYears : y <= year
    THEN ReductionRates[CHOOSE y \in TableYears :
                            y <= year /\ \A z \in TableYears : z <= year => z <= y]
    ELSE DefaultReduction

\* reductionRates[year] || 2: a missing (or zero) rate gives the default
ReductionPercent(year) ==
    IF year \in TableYears /\ ReductionRates[year] # 0
    THEN ReductionRates[year]
    ELSE DefaultReduction

\* getTargetIntensity: baseline * (1 - reductionPercent / 100)
GetTargetIntensity(year) == (Baseline * (1000 - ReductionPercent(year))) \div 1000

\* Route.calculateEnergyInScope, in MJ
CalculateEnergyInScope(route) == route.fuelConsumption * EnergyPerTonne

\* the difference taken the other way round
CbValueActualMinusTarget(route, year) ==
    (route.ghgIntensity - GetTargetIntensity(year))
        * (CalculateEnergyInScope(route) \div 100000)

\* cbValue = ((targetIntensity - route.ghgIntensity) * energyInScope) / 1_000_000,
\* in units of 0.00001 t; exact, the energy being a multiple of 100 000 MJ
CbValue(route, year) ==
    (GetTargetIntensity(year) - route.ghgIntensity)
        * (CalculateEnergyInScope(route) \div 100000)

\* a record that carries the route's year instead of the command's
ComplianceRecordRouteYear(shipId, year, cbValue, routeId) ==
    [shipId |-> shipId, year |-> routeRepo[routeId].year, cbGco2eq |-> cbValue,
     routeId |-> routeId]

\* the record handed to complianceRepo.save
ComplianceRecord(shipId, year, cbValue, routeId) ==
    [shipId |-> shipId, year |-> year, cbGco2eq |-> cbValue, routeId |-> routeId]

CommandYears == {2024, 2025, 2030, 2031, 2035, 2040, 2045, 2050, 2051}

CommandShips == {"S001", "S002"}

CommandRoutes == RouteCodes \cup {"R404"}

\* findByRouteId
FindByRouteId(repo, routeId) == IF routeId \in RouteCodes THEN repo[routeId] ELSE NoRoute

\* the number of records kept in the log of complianceRepo.save calls
MaxSaves == 1

\* ComputeCBUseCase.execute, the route is not found
ComputeCBFails(routeId, shipId, year) ==
    /\ pc = "idle"
    /\ ~FindByRouteId(routeRepo, routeId).found
    /\ cbLast' = [op |-> "computeCB", routeId |-> routeId, shipId |-> shipId, year |-> year,
                  outcome |-> "Route not found", target |-> 0, energy |-> 0, value |-> 0,
                  savesBefore |-> compSaves]
    /\ UNCHANGED <<routeRepo, routeLast, compSaves, httpLast>>
    /\ UNCHANGED poolVars
    /\ UNCHANGED bankVars
    /\ UNCHANGED concVars

\* ComputeCBUseCase.execute, the route is found
ComputeCBOk(routeId, shipId, year) ==
    /\ pc = "idle"
    /\ FindByRouteId(routeRepo, routeId).found
    /\ Len(compSaves) < MaxSaves
    /\ LET route == FindByRouteId(routeRepo, routeId)
       IN  /\ compSaves' = Append(compSaves,
                                  ComplianceRecord(shipId, year, CbValue(route, year), routeId))
           /\ cbLast' = [op |-> "computeCB", routeId |-> routeId, shipId |-> shipId,
                         year |-> year, outcome |-> "ok",
                         target |-> GetTargetIntensity(year),
                         energy |-> CalculateEnergyInScope(route),
                         value |-> CbValue(route, year), savesBefore |-> compSaves]
    /\ UNCHANGED <<routeRepo, routeLast, httpLast>>
    /\ UNCHANGED poolVars
    /\ UNCHANGED bankVars
    /\ UNCHANGED concVars

\* the routes the repository holds: R001 may be 88 gCO2e/MJ, 4800 t, 2025
ComplianceRepos ==
    {[c \in RouteCodes |-> IF c = "R001" THEN r1 ELSE r2] :
        r1 \in {NoRoute, RouteOf(880000, 4800, 2025, TRUE)},
        r2 \in {NoRoute, RouteOf(910000, 5000, 2024, FALSE)}}

ComplianceInit ==
    /\ PoolIdle
    /\ BankIdle
    /\ ConcIdle
    /\ routeRepo \in ComplianceRepos
    /\ routeLast = NoRouteCall
    /\ compSaves = <<>>
    /\ cbLast = NoCbCall
    /\ httpLast = NoHttpCall

ComplianceNext ==
    \/ \E routeId \in CommandRoutes, shipId \in CommandShips, year \in CommandYears :
           ComputeCBFails(routeId, shipId, year)
    \/ \E routeId \in CommandRoutes, shipId \in CommandShips, year \in CommandYears :
           ComputeCBOk(routeId, shipId, year)

ComplianceSpec == ComplianceInit /\ [][ComplianceNext]_vars

-----------------------------------------------------------------------------
(* Properties of CreatePoolUseCase *)

\* the mathematical sum of field f over the list s
RECURSIVE ExactSumUpTo(_, _, _)
ExactSumUpTo(s, n, f) == IF n = 0 THEN 0 ELSE ExactSumUpTo(s, n - 1, f) + s[n][f]

ExactSum(s, f) == ExactSumUpTo(s, Len(s), f)

\* the sum of field f over the list s as a left-to-right double sum
RECURSIVE DoubleSumUpTo(_, _, _)
DoubleSumUpTo(s, n, f) ==
    IF n = 0 THEN 0 ELSE FAdd(DoubleSumUpTo(s, n - 1, f), s[n][f])

DoubleSum(s, f) == DoubleSumUpTo(s, Len(s), f)

\* the member list passed both preconditions and greedyAllocate has built its list
Accepted == pc \in {"outer", "inner", "validate", "create"} \/ (pc = "done" /\ allocations # <<>>)

\* greedyAllocate has returned
GreedyReturned == pc \in {"validate", "create"} \/ (pc = "done" /\ allocations # <<>>)

\* C1: for every accepted member list the sum of cbAfter equals the sum of
\* cbBefore exactly, in the result and after every transfer step.  The sums are
\* read in the claim's favour: they agree as real numbers or as double sums.
PoolConservation ==
    Accepted =>
        \/ ExactSum(allocations, "cbAfter") = ExactSum(members, "cbBefore")
        \/ DoubleSum(allocations, "cbAfter") = DoubleSum(members, "cbBefore")

\* C2: in every returned allocation list, a member with cbBefore < 0 has
\* cbAfter >= cbBefore and a member with cbBefore > 0 has cbAfter >= 0.
PoolFairness ==
    GreedyReturned =>
        \A k \in 1 .. Len(allocations) :
            /\ allocations[k].cbBefore < 0 => allocations[k].cbAfter >= allocations[k].cbBefore
            /\ allocations[k].cbBefore > 0 => allocations[k].cbAfter >= 0

\* a returned pool in which a deficit member has gained and a surplus member has given
PoolFairnessWitness ==
    /\ pc = "done"
    /\ result = "ok"
    /\ \E k \in 1 .. Len(returned) :
           returned[k].cbBefore < 0 /\ returned[k].cbAfter > returned[k].cbBefore
    /\ \E k \in 1 .. Len(returned) :
           returned[k].cbBefore > 0 /\ returned[k].cbAfter < returned[k].cbBefore

\* the total of cbAfter over the members that started in surplus
RECURSIVE SurplusAfterUpTo(_, _)
SurplusAfterUpTo(al, n) ==
    IF n = 0 THEN 0
    ELSE SurplusAfterUpTo(al, n - 1) + (IF al[n].cbBefore > 0 THEN al[n].cbAfter ELSE 0)

\* C3: for every accepted member list greedyAllocate leaves no unsatisfied
\* deficit: every member with cbBefore < 0 ends with cbAfter = 0, no member ends
\* with cbAfter < 0, and the surplus members together keep the pool's aggregate sum.
PoolNoUnsatisfiedDeficit ==
    GreedyReturned =>
        /\ \A k \in 1 .. Len(allocations) :
               /\ allocations[k].cbBefore < 0 => allocations[k].cbAfter = 0
               /\ allocations[k].cbAfter >= 0
        /\ \/ SurplusAfterUpTo(allocations, Len(allocations)) = ExactSum(members, "cbBefore")
           \/ SurplusAfterUpTo(allocations, Len(allocations)) = TotalCB(members)

\* C4: execute with fewer than 2 members fails with PoolMinimumMembers, whatever
\* the cbBefore values are, and nothing is allocated or persisted.
PoolMinimumMembers ==
    (pc = "done" /\ Len(members) < 2) =>
        /\ result = "PoolMinimumMembers"
        /\ allocations = <<>>
        /\ poolStore = <<>>

\* a single member with negative cbBefore has been rejected
PoolMinimumMembersWitness ==
    /\ pc = "done"
    /\ Len(members) = 1
    /\ members[1].cbBefore < 0
    /\ result = "PoolMinimumMembers"

PoolNegativeTotalRejected ==
    /\ pc = "done"
    /\ Len(members) >= 2
    /\ TotalCB(members) < 0
    /\ result = "PoolNegativeTotal"

\* members [{S001, 1250.5}, {S002, -800.0}] in grid units of 0.5
PoolExample == <<[shipId |-> 1, cbBefore |-> 2501], [shipId |-> 2, cbBefore |-> -1600]>>

\* C6: a two-member pool (s, d) with s > 0 > d and s + d >= 0 ends with
\* cbAfter = s + d (the double sum) for the surplus member and 0 for the deficit
\* member; the example pool transfers 800 and ends with 450.5 and 0.
PoolTwoMembers ==
    (GreedyReturned /\ Len(members) = 2) =>
        /\ \A s, d \in 1 .. 2 :
               (members[s].cbBefore > 0 /\ members[d].cbBefore < 0) =>
                   /\ allocations[1] = [shipId |-> members[s].shipId,
                                        cbBefore |-> members[s].cbBefore,
                                        cbAfter |-> FAdd(members[s].cbBefore, members[d].cbBefore)]
                   /\ allocations[2] = [shipId |-> members[d].shipId,
                                        cbBefore |-> members[d].cbBefore,
                                        cbAfter |-> 0]
        /\ members = PoolExample =>
               /\ allocations[1].cbAfter = 901
               /\ allocations[2].cbAfter = 0
               /\ transfers = <<[src |-> 1, dst |-> 2, amount |-> 1600]>>

\* the example pool has been allocated and returned
PoolTwoMembersWitness ==
    /\ pc = "done"
    /\ result = "ok"
    /\ members = PoolExample
    /\ returned[1].cbAfter = 901
    /\ returned[2].cbAfter = 0

-----------------------------------------------------------------------------
(* Properties of the banking ledger *)

\* C8: BankSurplusUseCase.execute rejects in the order RecordNotFound (no
\* record), NonPositiveCB (record CB <= 0), AmountExceedsAvailable (amount >
\* record CB); a rejected call creates no BankEntry and leaves the store as it was.
BankRejectionOrder ==
    bankLast.op = "bank" =>
        /\ ~bankLast.recordBefore.found => bankLast.outcome = "RecordNotFound"
        /\ (bankLast.recordBefore.found /\ bankLast.recordBefore.cbGco2eq <= 0) =>
               bankLast.outcome = "NonPositiveCB"
        /\ (/\ bankLast.recordBefore.found
            /\ bankLast.recordBefore.cbGco2eq > 0
            /\ bankLast.amount > bankLast.recordBefore.cbGco2eq) =>
               bankLast.outcome = "AmountExceedsAvailable"
        /\ bankLast.outcome # "ok" => bankStore = bankLast.before

\* a call that fails two checks at once (CB <= 0 and amount > CB) reported the earlier one
BankRejectionOrderWitness ==
    /\ bankLast.op = "bank"
    /\ bankLast.recordBefore.found
    /\ bankLast.recordBefore.cbGco2eq <= 0
    /\ bankLast.amount > bankLast.recordBefore.cbGco2eq
    /\ bankLast.outcome = "NonPositiveCB"
    /\ bankStore = bankLast.before

\* C9: when the record exists with CB > 0 and amount <= CB, the call creates
\* exactly one new BankEntry for the key, carrying exactly the requested amount
\* with zero applied, and alters neither the existing entries nor the record.
BankNoPartial ==
    (/\ bankLast.op = "bank"
     /\ bankLast.recordBefore.found
     /\ bankLast.recordBefore.cbGco2eq > 0
     /\ bankLast.amount <= bankLast.recordBefore.cbGco2eq) =>
        /\ bankLast.outcome = "ok"
        /\ bankStore = Append(bankLast.before,
                              [key |-> bankLast.key, amount |-> bankLast.amount, applied |-> 0])
        /\ cbRecord[bankLast.key] = bankLast.recordBefore

\* the whole CB of a record has been banked on top of an entry already applied in part
BankNoPartialWitness ==
    /\ bankLast.op = "bank"
    /\ bankLast.outcome = "ok"
    /\ bankLast.amount = bankLast.recordBefore.cbGco2eq
    /\ Len(bankLast.before) > 0
    /\ \E k \in 1 .. Len(bankLast.before) : bankLast.before[k].applied # 0
    /\ Len(bankStore) = Len(bankLast.before) + 1

\* C10: after any sequence of serialized bankSurplus and applyBanked calls the
\* unapplied banked balance of a key is never negative; applyBanked fails with
\* NoBankedSurplus when the unapplied total is <= 0, with AmountExceedsBanked when
\* amount exceeds it, otherwise raises the applied portion by exactly amount, and
\* a failed applyBanked leaves the applied amounts unchanged.
BankRemainingNonNegative ==
    /\ \A key \in Keys : GetTotalBanked(bankStore, key) >= 0
    /\ bankLast.op = "apply" =>
           /\ GetTotalBanked(bankLast.before, bankLast.key) <= 0 =>
                  bankLast.outcome = "NoBankedSurplus"
           /\ (/\ GetTotalBanked(bankLast.before, bankLast.key) > 0
               /\ bankLast.amount > GetTotalBanked(bankLast.before, bankLast.key)) =>
                  bankLast.outcome = "AmountExceedsBanked"
           /\ bankLast.outcome = "ok" =>
                  TotalApplied(bankStore, bankLast.key)
                      = TotalApplied(bankLast.before, bankLast.key) + bankLast.amount
           /\ bankLast.outcome # "ok" => bankStore = bankLast.before

\* the banked total of a key
RECURSIVE TotalAmountUpTo(_, _, _)
TotalAmountUpTo(store, n, key) ==
    IF n = 0 THEN 0
    ELSE TotalAmountUpTo(store, n - 1, key)
         + (IF store[n].key = key THEN store[n].amount ELSE 0)

TotalAmount(store, key) == TotalAmountUpTo(store, Len(store), key)

\* C11, the part that holds: no update is lost, the store holds every completed
\* write of every key, whatever the callers of the other key do.
BankConcNoLostUpdate ==
    \A key \in Keys :
        /\ TotalAmount(bankStore, key) = acked[key].banked
        /\ TotalApplied(bankStore, key) = acked[key].applied

\* C11: with at most one bank/apply write in flight per key, every interleaving
\* of concurrent bankSurplus and applyBanked calls keeps applied <= banked for
\* each key and loses no update.  Stated for the runs in which every banked
\* amount is positive, so that a negative bank entry plays no part in it.
BankConcAppliedWithinBanked ==
    (\A k \in 1 .. Len(bankStore) : bankStore[k].amount > 0) =>
        /\ \A key \in Keys : TotalApplied(bankStore, key) <= TotalAmount(bankStore, key)
        /\ BankConcNoLostUpdate

\* C12: Route.create returns a Route exactly when ghgIntensity > 0,
\* fuelConsumption > 0 and year >= 2024; otherwise it fails with the message of
\* the first failing check in the order intensity, consumption, year; no Route
\* violating the three conditions is ever observable.
RouteCreateValidation ==
    /\ routeLast.op = "create" =>
        /\ routeLast.outcome = "ok" <=>
               (routeLast.ghgIntensity > 0 /\ routeLast.fuelConsumption > 0
                /\ routeLast.year >= 2024)
        /\ routeLast.ghgIntensity <= 0 =>
               routeLast.outcome = "GHG intensity must be positive"
        /\ (routeLast.ghgIntensity > 0 /\ routeLast.fuelConsumption <= 0) =>
               routeLast.outcome = "Fuel consumption must be positive"
        /\ (routeLast.ghgIntensity > 0 /\ routeLast.fuelConsumption > 0
            /\ routeLast.year < 2024) =>
               routeLast.outcome = "Year must be 2024 or later"
    /\ \A c \in RouteCodes :
           routeRepo[c].found =>
               (routeRepo[c].ghgIntensity > 0 /\ routeRepo[c].fuelConsumption > 0
                /\ routeRepo[c].year >= 2024)

\* C12 witness: intensity = 0 and year = 2023 together report the intensity error
RouteCreateValidationWitness ==
    /\ routeLast.op = "create"
    /\ routeLast.ghgIntensity = 0
    /\ routeLast.fuelConsumption > 0
    /\ routeLast.year = 2023
    /\ routeLast.outcome = "GHG intensity must be positive"

\* C16: in every controller action a ValidationError or not-found failure of the
\* use case is answered with a 4xx status and an unexpected failure (persistence
\* I/O) with a 5xx status, for getAll, setBaseline and getComparison, including
\* 'No baseline route set' and an I/O failure while setting the baseline.
HttpErrorMapping ==
    /\ httpLast.failure \in {"validation", "notFound", "No baseline route set"} =>
           (httpLast.status >= 400 /\ httpLast.status <= 499)
    /\ httpLast.failure = "io" =>
           (httpLast.status >= 500 /\ httpLast.status <= 599)

\* C16, the cases the controller answers as the mapping says
HttpErrorMappingHolds ==
    /\ (httpLast.action = "getAll" /\ httpLast.failure = "io") => httpLast.status = 500
    /\ (httpLast.action = "getComparison" /\ httpLast.failure = "io") => httpLast.status = 500
    /\ (httpLast.action = "setBaseline" /\ httpLast.failure = "notFound") =>
           httpLast.status = 400

\* the targets of the table of C13, in units of 0.0001 gCO2e/MJ
TargetTable(year) ==
    CASE year = 2025 -> 893368
      [] year = 2030 -> 856904
      [] year = 2035 -> 779418
      [] year = 2040 -> 629004
      [] year = 2045 -> 346408
      [] year = 2050 -> 182320
      [] OTHER -> 893368

\* C13: getTargetIntensity(year) is 91.16 x (1 - r/100) with r = 2, 6, 14.5, 31,
\* 62, 80 for 2025, 2030, 2035, 2040, 2045, 2050 (89.3368, 85.6904, 77.9418,
\* 62.9004, 34.6408, 18.2320), and r = 2 (89.3368) for every other year, also
\* for years between or after listed years such as 2024, 2031 and 2051.
TargetIntensityTable ==
    cbLast.outcome = "ok" =>
        /\ cbLast.target = TargetTable(cbLast.year)
        /\ cbLast.year \notin {2025, 2030, 2035, 2040, 2045, 2050} => cbLast.target = 893368

\* C13 witness: a target was computed for 2031, between two listed years
TargetIntensityTableWitness ==
    /\ cbLast.outcome = "ok"
    /\ cbLast.year = 2031
    /\ cbLast.target = 893368

\* the call of the example of C14: intensity 88, consumption 4800, year 2025
CbExampleCall ==
    /\ cbLast.outcome = "ok"
    /\ cbLast.year = 2025
    /\ FindByRouteId(routeRepo, cbLast.routeId).ghgIntensity = 880000
    /\ FindByRouteId(routeRepo, cbLast.routeId).fuelConsumption = 4800

\* a balance in units of 0.00001 t rounded to hundredths of a tonne, half away from zero
RoundToHundredths(v) == IF v >= 0 THEN (v + 500) \div 1000 ELSE -((500 - v) \div 1000)

\* the formula of C14 with the targets of the table, in units of 0.00001 t
CbFormula ==
    cbLast.outcome = "ok" =>
        LET route == FindByRouteId(routeRepo, cbLast.routeId)
        IN  /\ cbLast.energy = route.fuelConsumption * 41000
            /\ cbLast.value =
                   (TargetTable(cbLast.year) - route.ghgIntensity) * (cbLast.energy \div 100000)

\* C14 as stated: CB = (target(year) - ghgIntensity) x (fuelConsumption x 41000)
\* / 1 000 000; for intensity 88, consumption 4800, year 2025 the energy is
\* 196 800 000, the target 89.3368 and CB approximately 262.68 tCO2eq.
CbFormulaExampleAsStated ==
    /\ CbFormula
    /\ CbExampleCall =>
        /\ cbLast.energy = 196800000
        /\ cbLast.target = 893368
        /\ RoundToHundredths(cbLast.value) = 26268

\* C14 amended: the same formula; in the example CB is approximately 263.08 tCO2eq.
CbFormulaExample ==
    /\ CbFormula
    /\ CbExampleCall =>
        /\ cbLast.energy = 196800000
        /\ cbLast.target = 893368
        /\ RoundToHundredths(cbLast.value) = 26308

\* C14 witness: the example call was made and returned 263.08224 t
CbFormulaExampleWitness ==
    /\ CbExampleCall
    /\ cbLast.value = 26308224

\* C15: execute fails with 'Route not found' when the lookup by route code
\* returns nothing and then saves no ComplianceRecord; when the route resolves it
\* saves exactly one ComplianceRecord with the command's ship and year, the
\* route's code and the same CB value that it returns.
ComputeCBSavesOnce ==
    cbLast.op = "computeCB" =>
        /\ cbLast.outcome = "Route not found" <=> ~FindByRouteId(routeRepo, cbLast.routeId).found
        /\ cbLast.outcome = "Route not found" => compSaves = cbLast.savesBefore
        /\ cbLast.outcome # "Route not found" =>
               /\ cbLast.outcome = "ok"
               /\ compSaves = Append(cbLast.savesBefore,
                                     [shipId |-> cbLast.shipId, year |-> cbLast.year,
                                      cbGco2eq |-> cbLast.value, routeId |-> cbLast.routeId])

\* C15 witness: a failed lookup after a successful call left the one record alone
ComputeCBSavesOnceWitness ==
    /\ cbLast.outcome = "Route not found"
    /\ Len(compSaves) = 1
    /\ compSaves = cbLast.savesBefore

\* C15 witness of the other case: a call for a year that is not the route's year
ComputeCBSavesRecordWitness ==
    /\ cbLast.outcome = "ok"
    /\ Len(compSaves) = 1
    /\ cbLast.year # FindByRouteId(routeRepo, cbLast.routeId).year

\* C17: a pool member with cbBefore = 0 is inert: in every accepted pool its
\* cbAfter is 0, and no transfer step of greedyAllocate has it as the surplus
\* source or as the deficit sink.
PoolZeroMemberInert ==
    /\ \A k \in 1 .. Len(transfers) :
           /\ allocations[transfers[k].src].cbBefore # 0
           /\ allocations[transfers[k].dst].cbBefore # 0
    /\ \A k \in 1 .. Len(allocations) :
           allocations[k].cbBefore = 0 => allocations[k].cbAfter = 0
    /\ result = "ok" =>
           \A k \in 1 .. Len(returned) : returned[k].cbBefore = 0 => returned[k].cbAfter = 0

\* C17 witness: an accepted pool with a zero member, a transfer, and surplus left over
PoolZeroMemberInertWitness ==
    /\ result = "ok"
    /\ transfers # <<>>
    /\ \E k \in 1 .. Len(returned) : returned[k].cbBefore = 0
    /\ \E k \in 1 .. Len(returned) : returned[k].cbAfter > 0

\* the place of member m of ms in the stable descending order: after the members
\* with a larger cbBefore and after the earlier members with the same cbBefore
Rank(ms, m) ==
    1 + Cardinality({k \in 1 .. Len(ms) :
                        \/ ms[k].cbBefore > ms[m].cbBefore
                        \/ (ms[k].cbBefore = ms[m].cbBefore /\ k < m)})

\* al is ms reordered by cbBefore descending, ties in input order, with every
\* entry keeping its member's shipId and cbBefore
StableDescendingPermutation(ms, al) ==
    /\ Len(al) = Len(ms)
    /\ \A m \in 1 .. Len(ms) :
           /\ al[Rank(ms, m)].shipId = ms[m].shipId
           /\ al[Rank(ms, m)].cbBefore = ms[m].cbBefore

\* C18: the allocation list of the pool allocator is a permutation of the input
\* members ordered by cbBefore descending, members with equal cbBefore in their
\* input order (stable sort); each entry keeps its member's shipId and cbBefore.
PoolSortedStable ==
    /\ allocations # <<>> => StableDescendingPermutation(members, allocations)
    /\ result = "ok" => StableDescendingPermutation(members, returned)

\* C18 witness: an accepted pool with two members of equal cbBefore and different ids
PoolSortedStableWitness ==
    /\ result = "ok"
    /\ \E k \in 1 .. Len(returned) - 1 :
           /\ returned[k].cbBefore = returned[k + 1].cbBefore
           /\ returned[k].shipId # returned[k + 1].shipId

\* C19: for every member list that passes the two preconditions
\* validatePoolingRules never throws: 'would exit worse' and 'would exit
\* negative' are unreachable from execute, also when two members share a shipId.
PoolRulesNeverThrow ==
    result \notin {"MemberExitsWorse", "MemberExitsNegative"}

\* C19 for member lists whose shipIds are all different
PoolRulesNeverThrowDistinctIds ==
    (\A k, l \in 1 .. Len(members) : members[k].shipId = members[l].shipId => k = l)
        => result \notin {"MemberExitsWorse", "MemberExitsNegative"}

\* C20: execute calls the pool store's create at most once, only after both
\* preconditions and the rule check have passed, with the complete allocation
\* list (one entry per input member); on a validation failure create is never
\* called, and on success the allocations returned are the ones persisted.
PoolNoPartial ==
    /\ Len(poolStore) <= 1
    /\ poolStore # <<>> =>
           /\ result = "ok"
           /\ Len(members) >= 2
           /\ TotalCB(members) >= 0
           /\ ValidatePoolingRules(members, poolStore[1]) = "ok"
           /\ Len(poolStore[1]) = Len(members)
           /\ returned = poolStore[1]
    /\ result \in {"PoolMinimumMembers", "PoolNegativeTotal", "MemberExitsWorse",
                   "MemberExitsNegative", "PersistenceError"} =>
           /\ poolStore = <<>>
           /\ returned = <<>>
    /\ result = "ok" => poolStore = <<returned>>

\* C20 witness: a pool was persisted after at least one transfer
PoolNoPartialWitness ==
    /\ result = "ok"
    /\ Len(poolStore) = 1
    /\ transfers # <<>>
    /\ Len(poolStore[1]) >= 3

\* greedyAllocate has returned: the loops are over
GreedyDone == pc \in {"validate", "create", "done"} /\ allocations # <<>>

\* entry l comes before entry k in the order by cbBefore descending
PlacedBefore(al, l, k) ==
    \/ al[l].cbBefore > al[k].cbBefore
    \/ (al[l].cbBefore = al[k].cbBefore /\ l < k)

\* C21: in the result of greedyAllocate a surplus member has given anything
\* away (cbAfter < cbBefore) only if every member placed before it in the
\* descending order with cbBefore > 0 is exhausted to cbAfter = 0; hence at most
\* one surplus member ends partially drained, and deficits are filled starting
\* from the largest deficit at the tail.
PoolDonorOrder ==
    /\ GreedyDone =>
        /\ \A k, l \in 1 .. Len(allocations) :
               (/\ allocations[k].cbBefore > 0
                /\ allocations[k].cbAfter < allocations[k].cbBefore
                /\ allocations[l].cbBefore > 0
                /\ PlacedBefore(allocations, l, k)) => allocations[l].cbAfter = 0
        /\ Cardinality({k \in 1 .. Len(allocations) :
                           /\ 0 < allocations[k].cbAfter
                           /\ allocations[k].cbAfter < allocations[k].cbBefore}) <= 1
    /\ transfers # <<>> =>
        \A m \in 1 .. Len(allocations) :
            allocations[transfers[1].dst].cbBefore <= allocations[m].cbBefore
    /\ \A k, l \in 1 .. Len(transfers) :
           k < l =>
               /\ transfers[k].src <= transfers[l].src
               /\ (\/ transfers[l].dst = transfers[k].dst
                   \/ PlacedBefore(allocations, transfers[l].dst, transfers[k].dst))

\* C21 witness: the first donor is exhausted and the second one is partially drained
PoolDonorOrderWitness ==
    /\ GreedyDone
    /\ Len(transfers) >= 2
    /\ \E k, l \in 1 .. Len(allocations) :
           /\ l < k
           /\ allocations[l].cbBefore > 0
           /\ allocations[l].cbAfter = 0
           /\ 0 < allocations[k].cbAfter
           /\ allocations[k].cbAfter < allocations[k].cbBefore

\* C22: at every step of greedyAllocate and in its result each member with
\* cbBefore > 0 has 0 <= cbAfter <= cbBefore and each member with cbBefore < 0
\* has cbBefore <= cbAfter <= 0; every executed transfer amount is strictly
\* positive and the loop ends after at most n x n inner iterations.
PoolNoCrossing ==
    /\ \A k \in 1 .. Len(allocations) :
           /\ allocations[k].cbBefore > 0 =>
                  (0 <= allocations[k].cbAfter
                   /\ allocations[k].cbAfter <= allocations[k].cbBefore)
           /\ allocations[k].cbBefore < 0 =>
                  (allocations[k].cbBefore <= allocations[k].cbAfter
                   /\ allocations[k].cbAfter <= 0)
    /\ \A k \in 1 .. Len(transfers) : transfers[k].amount > 0
    /\ iters <= Len(members) * Len(members)

\* C22 witness: the loops are over after more inner iterations than members, a
\* deficit was raised and a surplus lowered
PoolNoCrossingWitness ==
    /\ GreedyDone
    /\ iters > Len(members)
    /\ \E k \in 1 .. Len(allocations) :
           allocations[k].cbBefore < 0 /\ allocations[k].cbBefore < allocations[k].cbAfter
    /\ \E k \in 1 .. Len(allocations) :
           allocations[k].cbBefore > 0 /\ allocations[k].cbAfter < allocations[k].cbBefore

\* C23, first part: the cumulative amount banked for a key does not exceed the
\* CB of the key's (unchanged) ComplianceRecord
BankCumulativeWithinRecord ==
    \A key \in Keys :
        (\E k \in 1 .. Len(bankStore) : bankStore[k].key = key) =>
            /\ cbRecord[key].found
            /\ TotalAmount(bankStore, key) <= cbRecord[key].cbGco2eq

\* C23, second part: every created BankEntry has a strictly positive amount
BankEntriesPositive ==
    \A k \in 1 .. Len(bankStore) : bankStore[k].amount > 0

\* C23: after any sequence of successful bankSurplus calls for the same (ship,
\* year) against an unchanged ComplianceRecord the cumulative amount banked does
\* not exceed the record's CB, and every created BankEntry has a strictly
\* positive amount.
BankCumulativeBound ==
    /\ BankCumulativeWithinRecord
    /\ BankEntriesPositive

\* C23 with positive amounts only: the cumulative bound alone
BankCumulativeBoundPositiveAmounts ==
    BankEntriesPositive => BankCumulativeWithinRecord

====
